---------------------------- MODULE Spec2Model ----------------------------
(***************************************************************************)
(* AMR risk assessment: the assessment router (createSession,              *)
(* submitResponse, submitAssessment, getResult), the storage functions of  *)
(* server/db.ts over the three tables of the drizzle schema, and the       *)
(* scoring engine of server/scoring.ts over the question catalog.          *)
(*                                                                         *)
(* Numbers: a totalScore is kept in hundredths (67.6 is 6760), a category  *)
(* weight in tenths (0.4 is 4).                                            *)
(***************************************************************************)
EXTENDS Integers, Sequences, FiniteSets, TLC

(***************************************************************************)
(* Question catalog (shared/assessment.ts)                                 *)
(***************************************************************************)
Categories == <<"behavioral", "knowledge", "environmental", "socioeconomic">>

CategorySet == {Categories[i] : i \in 1..Len(Categories)}

Opt(t, p) == [text |-> t, points |-> p]

Question(i, n, c, o) == [id |-> i, number |-> n, category |-> c, options |-> o]

ASSESSMENT_QUESTIONS ==
  << Question("behavioral_1", 1, "behavioral",
              <<Opt("Never", 0), Opt("Sometimes", 2), Opt("Often", 3)>>),
     Question("behavioral_2", 2, "behavioral", <<Opt("No", 0), Opt("Yes", 3)>>),
     Question("behavioral_3", 3, "behavioral", <<Opt("No", 0), Opt("Yes", 3)>>),
     Question("behavioral_4", 4, "behavioral", <<Opt("No", 0), Opt("Yes", 2)>>),
     Question("knowledge_1", 5, "knowledge", <<Opt("No", 0), Opt("Yes", 2)>>),
     Question("knowledge_2", 6, "knowledge", <<Opt("No", 0), Opt("Yes", 1)>>),
     Question("knowledge_3", 7, "knowledge", <<Opt("No", 0), Opt("Yes", 1)>>),
     Question("environmental_1", 8, "environmental", <<Opt("Yes", 0), Opt("No", 2)>>),
     Question("environmental_2", 9, "environmental", <<Opt("No", 0), Opt("Yes", 2)>>),
     Question("environmental_3", 10, "environmental",
              <<Opt("Always", 0), Opt("Sometimes", 1), Opt("Rarely", 2)>>),
     Question("socioeconomic_1", 11, "socioeconomic", <<Opt("No", 0), Opt("Yes", 2)>>),
     Question("socioeconomic_2", 12, "socioeconomic", <<Opt("No", 0), Opt("Yes", 2)>>) >>

\* ASSESSMENT_QUESTIONS.length
TotalQuestions == Len(ASSESSMENT_QUESTIONS)

QuestionIds == {ASSESSMENT_QUESTIONS[i].id : i \in 1..TotalQuestions}

\* a faulty variant: weights that sum to 1.1
CATEGORY_WEIGHTS_heavy ==
  [behavioral |-> 5, knowledge |-> 2, environmental |-> 2, socioeconomic |-> 2]

\* weights in tenths: 0.4, 0.2, 0.2, 0.2
CATEGORY_WEIGHTS ==
  [behavioral |-> 4, knowledge |-> 2, environmental |-> 2, socioeconomic |-> 2]

MAX_POINTS_PER_CATEGORY ==
  [behavioral |-> 11, knowledge |-> 4, environmental |-> 6, socioeconomic |-> 4]

RISK_LEVEL_THRESHOLDS ==
  [low |-> [min |-> 0, max |-> 30],
   moderate |-> [min |-> 31, max |-> 60],
   high |-> [min |-> 61, max |-> 100]]

\* a faulty variant: the upper edge of a band counted to the next band
getRiskLevel_openBands(score) ==
  IF score < 30 THEN "low"
  ELSE IF score < 60 THEN "moderate"
  ELSE "high"

getRiskLevel(score) ==
  IF score <= 30 THEN "low"
  ELSE IF score <= 60 THEN "moderate"
  ELSE "high"

\* Array.prototype.find: the first element satisfying the test, or NULL
NULL == [isNull |-> TRUE]

\* the element at the least of the indices hits, or NULL when there is none
FindFirst(seq, hits) ==
  IF hits = {} THEN NULL
  ELSE seq[CHOOSE i \in hits : \A j \in hits : i <= j]

(***************************************************************************)
(* Scoring engine (server/scoring.ts)                                      *)
(***************************************************************************)
\* Math.round of the non-negative rational num / den
MathRound(num, den) == (2 * num + den) \div (2 * den)

\* a faulty variant: the share of the points not scored
calculateCategoryPercentage_inverted(categoryScore, category) ==
  LET maxPoints == MAX_POINTS_PER_CATEGORY[category]
  IN  IF maxPoints = 0 THEN 0
      ELSE 100 - MathRound(categoryScore * 100, maxPoints)

\* a faulty variant: the percentage cut off instead of rounded
calculateCategoryPercentage_floor(categoryScore, category) ==
  LET maxPoints == MAX_POINTS_PER_CATEGORY[category]
  IN  IF maxPoints = 0 THEN 0
      ELSE (categoryScore * 100) \div maxPoints

calculateCategoryPercentage(categoryScore, category) ==
  LET maxPoints == MAX_POINTS_PER_CATEGORY[category]
  IN  IF maxPoints = 0 THEN 0
      ELSE MathRound(categoryScore * 100, maxPoints)

MaxOf(S) == CHOOSE x \in S : \A y \in S : y <= x

\* a faulty variant: a single winner, the first category at the maximum
findHighestRiskCategories_single(categoryPercentages) ==
  LET maxPercentage == MaxOf({categoryPercentages[c] : c \in CategorySet})
      IsMax(c) == categoryPercentages[c] = maxPercentage
  IN  IF maxPercentage = 0 THEN << >>
      ELSE << Head(SelectSeq(Categories, IsMax)) >>

findHighestRiskCategories(categoryPercentages) ==
  LET maxPercentage == MaxOf({categoryPercentages[c] : c \in CategorySet})
      IsMax(c) == categoryPercentages[c] = maxPercentage
  IN  IF maxPercentage = 0 THEN << >>
      ELSE SelectSeq(Categories, IsMax)

\* the template of the risk level with the score embedded
generateInterpretation(riskLevel, score) == <<riskLevel, score>>

categoryRecommendations(category) == [i \in 1..4 |-> <<category, i>>]

RECURSIVE CategoryLines(_)
CategoryLines(cats) ==
  IF cats = << >> THEN << >>
  ELSE categoryRecommendations(Head(cats)) \o CategoryLines(Tail(cats))

DISCLAIMER == <<"educational", 1>>

\* a faulty variant: the lines of the risk level put before those of the categories
generateRecommendations_levelFirst(riskLevel, highestRiskCategories) ==
  (IF riskLevel = "high" THEN << <<"high", 1>>, <<"high", 2>> >>
   ELSE IF riskLevel = "moderate"
        THEN << <<"moderate", 1>>, <<"moderate", 2>> >>
        ELSE << >>)
    \o CategoryLines(highestRiskCategories)
    \o << DISCLAIMER >>

generateRecommendations(riskLevel, highestRiskCategories) ==
  CategoryLines(highestRiskCategories)
    \o (IF riskLevel = "high" THEN << <<"high", 1>>, <<"high", 2>> >>
        ELSE IF riskLevel = "moderate"
             THEN << <<"moderate", 1>>, <<"moderate", 2>> >>
             ELSE << >>)
    \o << DISCLAIMER >>

\* a faulty variant: the loop stops one answer short
RECURSIVE SumPoints_skipLast(_, _)
SumPoints_skipLast(answers, category) ==
  IF Len(answers) <= 1 THEN 0
  ELSE (IF Head(answers).category = category THEN Head(answers).points ELSE 0)
       + SumPoints_skipLast(Tail(answers), category)

RECURSIVE SumPoints(_, _)
SumPoints(answers, category) ==
  IF answers = << >> THEN 0
  ELSE (IF Head(answers).category = category THEN Head(answers).points ELSE 0)
       + SumPoints(Tail(answers), category)

\* the weighted total in tenths: the sum of percentage * weight
RECURSIVE WeightedTotal(_, _)
WeightedTotal(categoryPercentages, cats) ==
  IF cats = << >> THEN 0
  ELSE categoryPercentages[Head(cats)] * CATEGORY_WEIGHTS[Head(cats)]
       + WeightedTotal(categoryPercentages, Tail(cats))

\* the outcome of a call: it throws an Error or it returns a value
Thrown(message) == [thrown |-> TRUE, error |-> message]

Returned(v) == [thrown |-> FALSE, value |-> v]

\* a faulty variant: only too few answers are refused
calculateRiskScore_atLeast(answers) ==
  IF Len(answers) < TotalQuestions THEN Thrown("Expected 12 answers")
  ELSE
    LET categoryScores == [c \in CategorySet |-> SumPoints(answers, c)]
        categoryPercentages ==
          [c \in CategorySet |-> calculateCategoryPercentage(categoryScores[c], c)]
        totalScore == WeightedTotal(categoryPercentages, Categories)
        normalizedScore == MathRound(totalScore, 10)
        riskLevel == getRiskLevel(normalizedScore)
        highestRiskCategories == findHighestRiskCategories(categoryPercentages)
    IN  Returned(
          [totalScore |-> MathRound(totalScore * 100, 10),
           riskLevel |-> riskLevel,
           categoryScores |-> categoryScores,
           categoryPercentages |-> categoryPercentages,
           highestRiskCategories |-> highestRiskCategories,
           interpretation |-> generateInterpretation(riskLevel, normalizedScore),
           recommendations |-> generateRecommendations(riskLevel, highestRiskCategories)])

calculateRiskScore(answers) ==
  IF Len(answers) # TotalQuestions THEN Thrown("Expected 12 answers")
  ELSE
    LET categoryScores == [c \in CategorySet |-> SumPoints(answers, c)]
        categoryPercentages ==
          [c \in CategorySet |-> calculateCategoryPercentage(categoryScores[c], c)]
        totalScore == WeightedTotal(categoryPercentages, Categories)
        normalizedScore == MathRound(totalScore, 10)
        riskLevel == getRiskLevel(normalizedScore)
        highestRiskCategories == findHighestRiskCategories(categoryPercentages)
    IN  Returned(
          [totalScore |-> MathRound(totalScore * 100, 10),
           riskLevel |-> riskLevel,
           categoryScores |-> categoryScores,
           categoryPercentages |-> categoryPercentages,
           highestRiskCategories |-> highestRiskCategories,
           interpretation |-> generateInterpretation(riskLevel, normalizedScore),
           recommendations |-> generateRecommendations(riskLevel, highestRiskCategories)])

\* a faulty variant: a label that matches no option is taken as the first option
validateAnswer_defaultOption(questionId, answerText) ==
  LET question ==
        FindFirst(ASSESSMENT_QUESTIONS,
                  {i \in 1..TotalQuestions : ASSESSMENT_QUESTIONS[i].id = questionId})
  IN  IF question = NULL THEN [valid |-> FALSE, error |-> "Question not found"]
      ELSE LET option ==
                 FindFirst(question.options,
                           {i \in 1..Len(question.options) :
                              question.options[i].text = answerText})
           IN  IF option = NULL
               THEN [valid |-> TRUE, points |-> question.options[1].points,
                     category |-> question.category]
               ELSE [valid |-> TRUE, points |-> option.points,
                     category |-> question.category]

\* a faulty variant: the points of the question's first option for every label
validateAnswer_firstPoints(questionId, answerText) ==
  LET question ==
        FindFirst(ASSESSMENT_QUESTIONS,
                  {i \in 1..TotalQuestions : ASSESSMENT_QUESTIONS[i].id = questionId})
  IN  IF question = NULL THEN [valid |-> FALSE, error |-> "Question not found"]
      ELSE LET option ==
                 FindFirst(question.options,
                           {i \in 1..Len(question.options) :
                              question.options[i].text = answerText})
           IN  IF option = NULL
               THEN [valid |-> FALSE, error |-> "Invalid answer option",
                     validOptions |-> [i \in 1..Len(question.options) |->
                                         question.options[i].text]]
               ELSE [valid |-> TRUE, points |-> question.options[1].points,
                     category |-> question.category]

\* a faulty variant: the last legal label left out of the error
validateAnswer_shortList(questionId, answerText) ==
  LET question ==
        FindFirst(ASSESSMENT_QUESTIONS,
                  {i \in 1..TotalQuestions : ASSESSMENT_QUESTIONS[i].id = questionId})
  IN  IF question = NULL THEN [valid |-> FALSE, error |-> "Question not found"]
      ELSE LET option ==
                 FindFirst(question.options,
                           {i \in 1..Len(question.options) :
                              question.options[i].text = answerText})
           IN  IF option = NULL
               THEN [valid |-> FALSE, error |-> "Invalid answer option",
                     validOptions |-> [i \in 1..(Len(question.options) - 1) |->
                                         question.options[i].text]]
               ELSE [valid |-> TRUE, points |-> option.points,
                     category |-> question.category]

validateAnswer(questionId, answerText) ==
  LET question ==
        FindFirst(ASSESSMENT_QUESTIONS,
                  {i \in 1..TotalQuestions : ASSESSMENT_QUESTIONS[i].id = questionId})
  IN  IF question = NULL THEN [valid |-> FALSE, error |-> "Question not found"]
      ELSE LET option ==
                 FindFirst(question.options,
                           {i \in 1..Len(question.options) :
                              question.options[i].text = answerText})
           IN  IF option = NULL
               THEN [valid |-> FALSE, error |-> "Invalid answer option",
                     validOptions |-> [i \in 1..Len(question.options) |->
                                         question.options[i].text]]
               ELSE [valid |-> TRUE, points |-> option.points,
                     category |-> question.category]

(***************************************************************************)
(* State: the three tables, the clock behind new Date() and now(), the     *)
(* response the client received from the last finished call, and the calls *)
(* that are suspended at an await, one slot per concurrent request.        *)
(***************************************************************************)
VARIABLES assessments, assessmentResponses, assessmentResults, clock, last, calls

vars == <<assessments, assessmentResponses, assessmentResults, clock, last, calls>>

tables == <<assessments, assessmentResponses, assessmentResults>>

\* session ids a client may send; nanoid draws the created ones from Clients
SessionIds == {"s1", "s2"}

Clients == {"s1"}

\* the clock advances with every completion; MaxClock caps it
MaxClock == 2

\* a completedAt that is still NULL
NoTimestamp == 0

\* the request slots of the concurrent server
Procs == {"p1", "p2"}

Idle == [pc |-> "idle"]

(***************************************************************************)
(* Storage functions (server/db.ts) over the tables of drizzle/schema.ts   *)
(***************************************************************************)
createAssessmentSession(sessionId) ==
  LET same == {i \in 1..Len(assessments) : assessments[i].sessionId = sessionId}
  IN  IF same # {}
      THEN Thrown("Duplicate entry for key assessments_sessionId_unique")
      ELSE Returned(Append(assessments,
                           [sessionId |-> sessionId, status |-> "in_progress",
                            completedAt |-> NoTimestamp]))

getAssessmentSession(sessionId) ==
  FindFirst(assessments, {i \in 1..Len(assessments) : assessments[i].sessionId = sessionId})

saveAssessmentResponse(sessionId, questionId, category, answerText, points) ==
  Returned(Append(assessmentResponses,
                  [sessionId |-> sessionId, questionId |-> questionId,
                   category |-> category, answerText |-> answerText,
                   points |-> points]))

ResponsesOf(table, sessionId) ==
  LET Same(r) == r.sessionId = sessionId
  IN  SelectSeq(table, Same)

getAssessmentResponses(sessionId) == ResponsesOf(assessmentResponses, sessionId)

\* the value an INT column keeps of a number given in hundredths
IntColumn(hundredths) == 100 * MathRound(hundredths, 100)

\* a faulty variant: the unique index on assessmentResults.sessionId left out
saveAssessmentResult_noUnique(sessionId, result) ==
  Returned(Append(assessmentResults,
         [sessionId |-> sessionId,
          totalScore |-> IntColumn(result.totalScore),
          riskLevel |-> result.riskLevel,
          categoryScores |-> result.categoryScores,
          categoryPercentages |-> result.categoryPercentages,
          highestRiskCategories |-> result.highestRiskCategories,
          interpretation |-> result.interpretation,
          recommendations |-> result.recommendations,
          createdAt |-> clock]))

saveAssessmentResult(sessionId, result) ==
  LET same == {i \in 1..Len(assessmentResults) : assessmentResults[i].sessionId = sessionId}
  IN  IF same # {}
      THEN Thrown("Duplicate entry for key assessmentResults_sessionId_unique")
      ELSE Returned(Append(assessmentResults,
             [sessionId |-> sessionId,
              totalScore |-> IntColumn(result.totalScore),
              riskLevel |-> result.riskLevel,
              categoryScores |-> result.categoryScores,
              categoryPercentages |-> result.categoryPercentages,
              highestRiskCategories |-> result.highestRiskCategories,
              interpretation |-> result.interpretation,
              recommendations |-> result.recommendations,
              createdAt |-> clock]))

\* a faulty variant: the where clause on the session id left out
getAssessmentResult_anySession(sessionId) ==
  IF assessmentResults = << >> THEN NULL ELSE assessmentResults[1]

getAssessmentResult(sessionId) ==
  FindFirst(assessmentResults, {i \in 1..Len(assessmentResults) : assessmentResults[i].sessionId = sessionId})

\* a faulty variant: the where clause on the session id left out
completeAssessment_everySession(sessionId) ==
  Returned([i \in 1..Len(assessments) |->
              [assessments[i] EXCEPT !.status = "completed",
                                     !.completedAt = clock + 1]])

completeAssessment(sessionId) ==
  Returned([i \in 1..Len(assessments) |->
              IF assessments[i].sessionId = sessionId
              THEN [assessments[i] EXCEPT !.status = "completed",
                                          !.completedAt = clock + 1]
              ELSE assessments[i]])

(***************************************************************************)
(* Router procedures (server/routers/assessment.ts), one call at a time    *)
(***************************************************************************)
Ok(op, sessionId, payload) ==
  [op |-> op, sessionId |-> sessionId, ok |-> TRUE, data |-> payload]

Fail(op, sessionId, error) ==
  [op |-> op, sessionId |-> sessionId, ok |-> FALSE, error |-> error]

\* new Error(message)
Error(message) == [message |-> message]

createSession(sessionId) ==
  LET created == createAssessmentSession(sessionId)
  IN  /\ IF created.thrown
         THEN /\ last' = Fail("createSession", sessionId,
                              Error("Failed to create assessment session"))
              /\ UNCHANGED assessments
         ELSE /\ assessments' = created.value
              /\ last' = Ok("createSession", sessionId, [sessionId |-> sessionId])
      /\ UNCHANGED <<assessmentResponses, assessmentResults, clock, calls>>

\* a faulty variant: the status test of submitResponse left out
AcceptsResponses_anyStatus(session) == TRUE

\* submitResponse stores a response for a session in this status only
AcceptsResponses(session) == session.status = "in_progress"

submitResponse(sessionId, questionId, answerText) ==
  LET session == getAssessmentSession(sessionId)
      validation == validateAnswer(questionId, answerText)
      saved == saveAssessmentResponse(sessionId, questionId, validation.category,
                                      answerText, validation.points)
      responses == ResponsesOf(saved.value, sessionId)
  IN  /\ IF session = NULL
         THEN /\ last' = Fail("submitResponse", sessionId, Error("Session not found"))
              /\ UNCHANGED assessmentResponses
         ELSE IF ~AcceptsResponses(session)
         THEN /\ last' = Fail("submitResponse", sessionId,
                              Error("Assessment already completed"))
              /\ UNCHANGED assessmentResponses
         ELSE IF ~validation.valid
         THEN /\ last' = Fail("submitResponse", sessionId, Error(validation.error))
              /\ UNCHANGED assessmentResponses
         ELSE /\ assessmentResponses' = saved.value
              /\ last' = Ok("submitResponse", sessionId,
                            [success |-> TRUE,
                             responsesCount |-> Len(responses),
                             totalQuestions |-> TotalQuestions])
      /\ UNCHANGED <<assessments, assessmentResults, clock, calls>>

\* a faulty variant: the two counts of the message exchanged
IncompleteAssessment_swapped(expected, actual) ==
  [message |-> "Incomplete assessment", expected |-> actual, actual |-> expected]

IncompleteAssessment(expected, actual) ==
  [message |-> "Incomplete assessment", expected |-> expected, actual |-> actual]

submitAssessment(sessionId) ==
  LET session == getAssessmentSession(sessionId)
      responses == getAssessmentResponses(sessionId)
      answers == [i \in 1..Len(responses) |->
                    [questionId |-> responses[i].questionId,
                     category |-> responses[i].category,
                     answerText |-> responses[i].answerText,
                     points |-> responses[i].points]]
      result == calculateRiskScore(answers)
      saved == saveAssessmentResult(sessionId, result.value)
      completed == completeAssessment(sessionId)
  IN  /\ IF session = NULL
         THEN /\ last' = Fail("submitAssessment", sessionId,
                              Error("Session not found"))
              /\ UNCHANGED <<tables, clock>>
         ELSE IF Len(responses) # TotalQuestions
         THEN /\ last' = Fail("submitAssessment", sessionId,
                              IncompleteAssessment(TotalQuestions, Len(responses)))
              /\ UNCHANGED <<tables, clock>>
         ELSE IF result.thrown
         THEN /\ last' = Fail("submitAssessment", sessionId, Error(result.error))
              /\ UNCHANGED <<tables, clock>>
         ELSE IF saved.thrown
         THEN /\ last' = Fail("submitAssessment", sessionId, Error(saved.error))
              /\ UNCHANGED <<tables, clock>>
         ELSE /\ clock < MaxClock
              /\ assessmentResults' = saved.value
              /\ assessments' = completed.value
              /\ clock' = clock + 1
              /\ last' = Ok("submitAssessment", sessionId, result.value)
              /\ UNCHANGED assessmentResponses
      /\ UNCHANGED calls

getResult(sessionId) ==
  LET result == getAssessmentResult(sessionId)
  IN  /\ IF result = NULL
         THEN last' = Fail("getResult", sessionId,
                           Error("Failed to retrieve assessment result"))
         ELSE last' = Ok("getResult", sessionId,
                         [totalScore |-> result.totalScore,
                          riskLevel |-> result.riskLevel,
                          categoryScores |-> result.categoryScores,
                          categoryPercentages |-> result.categoryPercentages,
                          highestRiskCategories |-> result.highestRiskCategories,
                          interpretation |-> result.interpretation,
                          recommendations |-> result.recommendations,
                          createdAt |-> result.createdAt])
      /\ UNCHANGED <<tables, clock, calls>>

(***************************************************************************)
(* The environment: one respondent per created session, who answers from   *)
(* a fixed answer sheet, walks the catalog forward, and may repeat or skip *)
(* a question; a client may also send ids and labels that do not exist.    *)
(***************************************************************************)
\* category sums 8, 3, 4, 2: the worked example of the scoring documentation
ANSWER_SHEET ==
  <<"Often", "Yes", "No", "Yes", "Yes", "Yes", "No", "No", "Yes", "Always",
    "Yes", "No">>

\* rows of one session beyond one per question
MaxDup == 1

\* questions a respondent passes over
MaxSkip == 1

Ordinal(questionId) ==
  CHOOSE n \in 1..TotalQuestions : ASSESSMENT_QUESTIONS[n].id = questionId

AnsweredIds(rows) == {rows[i].questionId : i \in 1..Len(rows)}

AnsweredOrdinals(rows) == {Ordinal(q) : q \in AnsweredIds(rows)}

RespondentSends(sessionId, questionId) ==
  LET rows == getAssessmentResponses(sessionId)
      before == AnsweredOrdinals(rows)
      n == Ordinal(questionId)
      after == before \cup {n}
  IN  /\ \A m \in before : m <= n
      /\ (Len(rows) + 1) - Cardinality(after) <= MaxDup
      /\ n - Cardinality(after) <= MaxSkip

InvalidQuestionId == "invalid_question"

InvalidAnswer == "Invalid Answer"

\* the external lifecycle policy: a sweep marks a stale session abandoned
abandonSession(sessionId) ==
  LET session == getAssessmentSession(sessionId)
  IN  /\ session # NULL
      /\ session.status = "in_progress"
      /\ assessments' = [i \in 1..Len(assessments) |->
                           IF assessments[i].sessionId = sessionId
                           THEN [assessments[i] EXCEPT !.status = "abandoned"]
                           ELSE assessments[i]]
      /\ last' = Ok("abandonSession", sessionId, [sessionId |-> sessionId])
      /\ UNCHANGED <<assessmentResponses, assessmentResults, clock, calls>>

Init ==
  /\ assessments = << >>
  /\ assessmentResponses = << >>
  /\ assessmentResults = << >>
  /\ clock = 0
  /\ last = Ok("start", "none", [sessionId |-> "none"])
  /\ calls = [p \in Procs |-> Idle]

Next ==
  \/ \E s \in Clients : createSession(s)
  \/ \E s \in SessionIds, n \in 1..TotalQuestions :
        /\ RespondentSends(s, ASSESSMENT_QUESTIONS[n].id)
        /\ submitResponse(s, ASSESSMENT_QUESTIONS[n].id, ANSWER_SHEET[n])
  \/ \E s \in SessionIds, n \in {1, TotalQuestions} :
        submitResponse(s, ASSESSMENT_QUESTIONS[n].id, InvalidAnswer)
  \/ \E s \in SessionIds : submitResponse(s, InvalidQuestionId, ANSWER_SHEET[1])
  \/ \E s \in SessionIds : submitAssessment(s)
  \/ \E s \in SessionIds : getResult(s)
  \/ \E s \in SessionIds : abandonSession(s)

Spec == Init /\ [][Next]_vars

(***************************************************************************)
(* The same procedures under concurrent requests: every await of a handler *)
(* is a step of its own, and the handlers of other requests run between    *)
(* the steps.  A call in slot p keeps its locals in calls[p].              *)
(***************************************************************************)
Suspend(p, call) == calls' = [calls EXCEPT ![p] = call]

Finish(p, response) ==
  /\ last' = response
  /\ calls' = [calls EXCEPT ![p] = Idle]

\* submitResponse up to its first await: getAssessmentSession
submitResponse_getSession(p, sessionId, questionId, answerText) ==
  LET session == getAssessmentSession(sessionId)
      validation == validateAnswer(questionId, answerText)
  IN  /\ calls[p] = Idle
      /\ IF session = NULL
         THEN Finish(p, Fail("submitResponse", sessionId, Error("Session not found")))
         ELSE IF ~AcceptsResponses(session)
         THEN Finish(p, Fail("submitResponse", sessionId,
                             Error("Assessment already completed")))
         ELSE IF ~validation.valid
         THEN Finish(p, Fail("submitResponse", sessionId, Error(validation.error)))
         ELSE /\ Suspend(p, [pc |-> "saveResponse", op |-> "submitResponse",
                             sessionId |-> sessionId, questionId |-> questionId,
                             answerText |-> answerText,
                             category |-> validation.category,
                             points |-> validation.points])
              /\ UNCHANGED last
      /\ UNCHANGED <<tables, clock>>

\* the second await: saveAssessmentResponse
submitResponse_save(p) ==
  LET c == calls[p]
      saved == saveAssessmentResponse(c.sessionId, c.questionId, c.category,
                                      c.answerText, c.points)
  IN  /\ c.pc = "saveResponse"
      /\ assessmentResponses' = saved.value
      /\ Suspend(p, [pc |-> "countResponses", op |-> "submitResponse",
                     sessionId |-> c.sessionId])
      /\ UNCHANGED <<assessments, assessmentResults, clock, last>>

\* the third await: getAssessmentResponses, then the return
submitResponse_count(p) ==
  LET c == calls[p]
      responses == getAssessmentResponses(c.sessionId)
  IN  /\ c.pc = "countResponses"
      /\ Finish(p, Ok("submitResponse", c.sessionId,
                      [success |-> TRUE,
                       responsesCount |-> Len(responses),
                       totalQuestions |-> TotalQuestions]))
      /\ UNCHANGED <<tables, clock>>

\* submitAssessment up to its first await: getAssessmentSession
submitAssessment_getSession(p, sessionId) ==
  LET session == getAssessmentSession(sessionId)
  IN  /\ calls[p] = Idle
      /\ IF session = NULL
         THEN Finish(p, Fail("submitAssessment", sessionId,
                             Error("Session not found")))
         ELSE /\ Suspend(p, [pc |-> "getResponses", op |-> "submitAssessment",
                             sessionId |-> sessionId])
              /\ UNCHANGED last
      /\ UNCHANGED <<tables, clock>>

\* the second await: getAssessmentResponses, the count test and the scoring
submitAssessment_getResponses(p) ==
  LET c == calls[p]
      responses == getAssessmentResponses(c.sessionId)
      answers == [i \in 1..Len(responses) |->
                    [questionId |-> responses[i].questionId,
                     category |-> responses[i].category,
                     answerText |-> responses[i].answerText,
                     points |-> responses[i].points]]
      result == calculateRiskScore(answers)
  IN  /\ c.pc = "getResponses"
      /\ IF Len(responses) # TotalQuestions
         THEN Finish(p, Fail("submitAssessment", c.sessionId,
                             IncompleteAssessment(TotalQuestions, Len(responses))))
         ELSE IF result.thrown
         THEN Finish(p, Fail("submitAssessment", c.sessionId, Error(result.error)))
         ELSE /\ Suspend(p, [pc |-> "saveResult", op |-> "submitAssessment",
                             sessionId |-> c.sessionId, result |-> result.value])
              /\ UNCHANGED last
      /\ UNCHANGED <<tables, clock>>

\* the third await: saveAssessmentResult
submitAssessment_saveResult(p) ==
  LET c == calls[p]
      saved == saveAssessmentResult(c.sessionId, c.result)
  IN  /\ c.pc = "saveResult"
      /\ IF saved.thrown
         THEN /\ Finish(p, Fail("submitAssessment", c.sessionId, Error(saved.error)))
              /\ UNCHANGED assessmentResults
         ELSE /\ assessmentResults' = saved.value
              /\ Suspend(p, [c EXCEPT !.pc = "complete"])
              /\ UNCHANGED last
      /\ UNCHANGED <<assessments, assessmentResponses, clock>>

\* the fourth await: completeAssessment, then the return
submitAssessment_complete(p) ==
  LET c == calls[p]
      completed == completeAssessment(c.sessionId)
  IN  /\ c.pc = "complete"
      /\ clock < MaxClock
      /\ assessments' = completed.value
      /\ clock' = clock + 1
      /\ Finish(p, Ok("submitAssessment", c.sessionId, c.result))
      /\ UNCHANGED <<assessmentResponses, assessmentResults>>

\* the fourth await rejected by the storage: the update of completeAssessment
\* fails, the catch of submitAssessment throws its message on
submitAssessment_completeFails(p) ==
  LET c == calls[p]
  IN  /\ c.pc = "complete"
      /\ Finish(p, Fail("submitAssessment", c.sessionId, Error("storage failure")))
      /\ UNCHANGED <<tables, clock>>

\* questions of the catalog still unanswered when the concurrent requests start
MaxOpen == 1

SheetRows(sessionId, k) ==
  [n \in 1..k |->
     [sessionId |-> sessionId, questionId |-> ASSESSMENT_QUESTIONS[n].id,
      category |-> ASSESSMENT_QUESTIONS[n].category,
      answerText |-> ANSWER_SHEET[n],
      points |-> validateAnswer(ASSESSMENT_QUESTIONS[n].id, ANSWER_SHEET[n]).points]]

\* a state Spec reaches: one session in progress, its first k questions answered
InitConc ==
  /\ assessments = << [sessionId |-> "s1", status |-> "in_progress",
                       completedAt |-> NoTimestamp] >>
  /\ \E k \in (TotalQuestions - MaxOpen)..TotalQuestions :
        /\ assessmentResponses = SheetRows("s1", k)
        /\ last = Ok("submitResponse", "s1",
                     [success |-> TRUE, responsesCount |-> k,
                      totalQuestions |-> TotalQuestions])
  /\ assessmentResults = << >>
  /\ clock = 0
  /\ calls = [p \in Procs |-> Idle]

NextConc ==
  \/ \E s \in Clients : createSession(s)
  \/ \E p \in Procs, s \in SessionIds, n \in 1..TotalQuestions :
        /\ RespondentSends(s, ASSESSMENT_QUESTIONS[n].id)
        /\ submitResponse_getSession(p, s, ASSESSMENT_QUESTIONS[n].id,
                                     ANSWER_SHEET[n])
  \/ \E p \in Procs : submitResponse_save(p)
  \/ \E p \in Procs : submitResponse_count(p)
  \/ \E p \in Procs, s \in SessionIds : submitAssessment_getSession(p, s)
  \/ \E p \in Procs : submitAssessment_getResponses(p)
  \/ \E p \in Procs : submitAssessment_saveResult(p)
  \/ \E p \in Procs : submitAssessment_complete(p)
  \/ \E p \in Procs : submitAssessment_completeFails(p)
  \/ \E s \in SessionIds : getResult(s)
  \/ \E s \in SessionIds : abandonSession(s)

SpecConc == InitConc /\ [][NextConc]_vars

(***************************************************************************)
(* Properties                                                              *)
(***************************************************************************)
StatusOf(sessionId) ==
  LET session == getAssessmentSession(sessionId)
  IN  IF session = NULL THEN "unknown" ELSE session.status

DistinctAnswered(sessionId) ==
  Cardinality(AnsweredIds(getAssessmentResponses(sessionId)))

\* C1: a finalize that succeeded, and every persisted result, belongs to a
\* session whose stored responses contain every one of the 12 catalog
\* question ids.
C1_CompletenessGate ==
  /\ \A s \in SessionIds :
        getAssessmentResult(s) # NULL
          => AnsweredIds(getAssessmentResponses(s)) = QuestionIds
  /\ (last.op = "submitAssessment" /\ last.ok)
        => AnsweredIds(getAssessmentResponses(last.sessionId)) = QuestionIds

\* C2: a submitAssessment call on a session that is already completed fails
\* with the already-finalized error.
C2_SecondFinalizeRejectedAsFinalized ==
  (/\ last.op = "submitAssessment"
   /\ ~last.ok
   /\ StatusOf(last.sessionId) = "completed")
    => last.error.message = "Assessment already completed"

ResultRowsOf(sessionId) ==
  {i \in 1..Len(assessmentResults) : assessmentResults[i].sessionId = sessionId}

\* C3: under any interleaving of the handlers' steps, also of two concurrent
\* submitAssessment calls on one complete session, a session never has more
\* than one persisted result, and a persisted result row is never changed
\* or removed.
C3_OneImmutableResult ==
  /\ [](\A s \in SessionIds : Cardinality(ResultRowsOf(s)) <= 1)
  /\ [][ \A i \in 1..Len(assessmentResults) :
           /\ i <= Len(assessmentResults')
           /\ assessmentResults'[i] = assessmentResults[i] ]_vars

\* two finalize calls raced: the loser got the unique-index error while the
\* winner has stored its result and not yet marked the session completed
C3_Witness ==
  /\ last.op = "submitAssessment"
  /\ ~last.ok
  /\ last.error.message = "Duplicate entry for key assessmentResults_sessionId_unique"
  /\ StatusOf(last.sessionId) = "in_progress"
  /\ Cardinality(ResultRowsOf(last.sessionId)) = 1
  /\ \E p \in Procs : calls[p].pc = "complete"

\* C4: every session holds at most one stored response per question id.
C4_OneResponsePerQuestion ==
  \A s \in SessionIds :
    Len(getAssessmentResponses(s)) = DistinctAnswered(s)

\* C5: every persisted result has each category sum within [0, categoryMax],
\* each category percentage within [0, 100] and the total within [0, 100].
C5_ResultWithinBounds ==
  \A i \in 1..Len(assessmentResults) :
    LET r == assessmentResults[i]
    IN  /\ \A c \in CategorySet :
              /\ r.categoryScores[c] \in 0..MAX_POINTS_PER_CATEGORY[c]
              /\ r.categoryPercentages[c] \in 0..100
        /\ r.totalScore \in 0..10000

\* C6: a submitResponse for an unknown session fails with "Session not
\* found", one for a completed session fails with "Assessment already
\* completed", neither stores a response row, and an accepted one was sent
\* to an existing session in status in_progress.
C6_SubmitResponseNeedsInProgress ==
  [][ last'.op = "submitResponse" =>
        LET s == last'.sessionId
        IN  /\ StatusOf(s) = "unknown" =>
                  /\ ~last'.ok
                  /\ last'.error.message = "Session not found"
                  /\ UNCHANGED tables
            /\ StatusOf(s) = "completed" =>
                  /\ ~last'.ok
                  /\ last'.error.message = "Assessment already completed"
                  /\ UNCHANGED tables
            /\ last'.ok => StatusOf(s) = "in_progress" ]_vars

C6_Witness ==
  /\ last.op = "submitResponse"
  /\ ~last.ok
  /\ last.error.message = "Assessment already completed"
  /\ StatusOf(last.sessionId) = "completed"
  /\ Len(getAssessmentResponses(last.sessionId)) = TotalQuestions

\* C7: a successful submitResponse returns the number of distinct question
\* ids answered so far in the session, which never exceeds totalQuestions = 12.
C7_CountIsDistinctAnswered ==
  (last.op = "submitResponse" /\ last.ok)
    => /\ last.data.responsesCount = DistinctAnswered(last.sessionId)
       /\ last.data.totalQuestions = 12
       /\ last.data.responsesCount <= last.data.totalQuestions

C9_IncompleteNamesCounts ==
  [][ (/\ last'.op = "submitAssessment"
       /\ StatusOf(last'.sessionId) # "unknown"
       /\ Len(getAssessmentResponses(last'.sessionId)) # 12)
        => /\ ~last'.ok
           /\ last'.error.message = "Incomplete assessment"
           /\ last'.error.expected = 12
           /\ last'.error.actual = Len(getAssessmentResponses(last'.sessionId))
           /\ UNCHANGED tables ]_vars

C9_Witness ==
  /\ last.op = "submitAssessment"
  /\ ~last.ok
  /\ last.error.message = "Incomplete assessment"
  /\ last.error.actual = 11
  /\ StatusOf(last.sessionId) = "in_progress"
  /\ getAssessmentResult(last.sessionId) = NULL

\* C10: no operation moves a session out of abandoned or out of completed.
C10_TerminalStatesStay ==
  [][ \A s \in SessionIds :
        StatusOf(s) \in {"abandoned", "completed"}
          => StatusOf(s)' = StatusOf(s) ]_vars

(***************************************************************************)
(* Invalid input to submitResponse                                         *)
(***************************************************************************)
\* the requests of Next whose question id or label is not in the catalog
InvalidRequests ==
  {[questionId |-> InvalidQuestionId, answerText |-> ANSWER_SHEET[1]]}
    \cup {[questionId |-> ASSESSMENT_QUESTIONS[n].id, answerText |-> InvalidAnswer] :
            n \in {1, TotalQuestions}}

\* C11: a submitResponse whose question id is not in the catalog, or whose
\* label is not an option of its question, fails with an error and leaves the
\* three tables as they were (no row stored, status unchanged); on a session
\* in progress the error is the validator's.
C11_InvalidInputRejected ==
  [][\A s \in SessionIds : \A r \in InvalidRequests :
       submitResponse(s, r.questionId, r.answerText) =>
         /\ UNCHANGED tables
         /\ last'.op = "submitResponse"
         /\ ~last'.ok
         /\ StatusOf(s) = "in_progress" =>
              last'.error = Error(validateAnswer(r.questionId, r.answerText).error)
         /\ StatusOf(s) = "in_progress" =>
              last'.error.message \in {"Question not found", "Invalid answer option"}]_vars

\* an invalid label was rejected on a session in progress that has rows stored
C11_Witness ==
  /\ last = Fail("submitResponse", "s1", Error("Invalid answer option"))
  /\ StatusOf("s1") = "in_progress"
  /\ Len(getAssessmentResponses("s1")) >= 2

(***************************************************************************)
(* The scoring engine called on its own, as its unit tests call it: a slot *)
(* of calls holds the request of one call, the call puts its input and its *)
(* output in last.  The tables stay empty.                                 *)
(***************************************************************************)
\* every option text of the catalog
Labels ==
  UNION {{ASSESSMENT_QUESTIONS[n].options[k].text :
            k \in 1..Len(ASSESSMENT_QUESTIONS[n].options)} : n \in 1..TotalQuestions}

ValidateRequests ==
  {[pc |-> "validateAnswer", questionId |-> q, answerText |-> a] :
     q \in QuestionIds \cup {InvalidQuestionId}, a \in Labels \cup {InvalidAnswer}}

validateAnswer_call(p) ==
  /\ calls[p].pc = "validateAnswer"
  /\ last' = [op |-> "validateAnswer",
              input |-> [questionId |-> calls[p].questionId,
                         answerText |-> calls[p].answerText],
              output |-> validateAnswer(calls[p].questionId, calls[p].answerText)]
  /\ calls' = [calls EXCEPT ![p] = Idle]
  /\ UNCHANGED <<tables, clock>>

\* the answer record of option k of question n, as createAnswerSet builds it
Answer(n, k) ==
  [questionId |-> ASSESSMENT_QUESTIONS[n].id,
   category |-> ASSESSMENT_QUESTIONS[n].category,
   answerText |-> ASSESSMENT_QUESTIONS[n].options[k].text,
   points |-> ASSESSMENT_QUESTIONS[n].options[k].points]

\* every way to answer questions 1..n, one option each, in catalog order
RECURSIVE AnswerSets(_)
AnswerSets(n) ==
  IF n = 0 THEN {<< >>}
  ELSE {Append(a, Answer(n, k)) :
          a \in AnswerSets(n - 1), k \in 1..Len(ASSESSMENT_QUESTIONS[n].options)}

CompleteAnswerSets == AnswerSets(TotalQuestions)

\* all minimum answers
FirstOptions == [n \in 1..TotalQuestions |-> Answer(n, 1)]

\* all maximum answers
LastOptions ==
  [n \in 1..TotalQuestions |-> Answer(n, Len(ASSESSMENT_QUESTIONS[n].options))]

\* first and last option in turn
AlternateOptions ==
  [n \in 1..TotalQuestions |->
     IF (n - 1) % 2 = 0 THEN Answer(n, 1)
     ELSE Answer(n, Len(ASSESSMENT_QUESTIONS[n].options))]

\* the answers of ANSWER_SHEET
SheetAnswers ==
  [n \in 1..TotalQuestions |->
     Answer(n, CHOOSE k \in 1..Len(ASSESSMENT_QUESTIONS[n].options) :
                 ASSESSMENT_QUESTIONS[n].options[k].text = ANSWER_SHEET[n])]

BaseAnswerSets == {FirstOptions, LastOptions, AlternateOptions, SheetAnswers}

\* answers beyond the catalog size in a request
MaxExtra == 1

\* answers.slice(0, k), and for k beyond the length the first answers again
Resized(answers, k) ==
  IF k <= Len(answers) THEN SubSeq(answers, 1, k)
  ELSE answers \o SubSeq(answers, 1, k - Len(answers))

Rotated(answers, r) ==
  [i \in 1..Len(answers) |-> answers[((i + r - 1) % Len(answers)) + 1]]

Reversed(answers) ==
  [i \in 1..Len(answers) |-> answers[Len(answers) + 1 - i]]

\* answers[i] and answers[i + 1] exchanged
Swapped(answers, i) ==
  [j \in 1..Len(answers) |->
     IF j = i THEN answers[i + 1] ELSE IF j = i + 1 THEN answers[i] ELSE answers[j]]

ScoreRequests ==
  {[pc |-> "calculateRiskScore", answers |-> a] :
     a \in CompleteAnswerSets
           \cup {Resized(b, k) : b \in BaseAnswerSets, k \in 0..(TotalQuestions + MaxExtra)}
           \cup {Rotated(b, r) : b \in BaseAnswerSets, r \in 1..(TotalQuestions - 1)}
           \cup {Reversed(b) : b \in BaseAnswerSets}}

calculateRiskScore_call(p) ==
  /\ calls[p].pc = "calculateRiskScore"
  /\ last' = [op |-> "calculateRiskScore",
              input |-> calls[p].answers,
              output |-> calculateRiskScore(calls[p].answers)]
  /\ calls' = [calls EXCEPT ![p] = Idle]
  /\ UNCHANGED <<tables, clock>>

\* the integer scores of the documented range
Scores == RISK_LEVEL_THRESHOLDS.low.min .. RISK_LEVEL_THRESHOLDS.high.max

LevelRequests == {[pc |-> "getRiskLevel", score |-> n] : n \in Scores}

getRiskLevel_call(p) ==
  /\ calls[p].pc = "getRiskLevel"
  /\ last' = [op |-> "getRiskLevel",
              input |-> calls[p].score,
              output |-> [riskLevel |-> getRiskLevel(calls[p].score)]]
  /\ calls' = [calls EXCEPT ![p] = Idle]
  /\ UNCHANGED <<tables, clock>>

Received(request) == calls = [p \in Procs |-> IF p = "p1" THEN request ELSE Idle]

InitScoring ==
  /\ assessments = << >>
  /\ assessmentResponses = << >>
  /\ assessmentResults = << >>
  /\ clock = 0
  /\ last = Ok("start", "none", [sessionId |-> "none"])
  /\ \/ \E r \in ValidateRequests : Received(r)
     \/ \E r \in ScoreRequests : Received(r)
     \/ \E r \in LevelRequests : Received(r)

NextScoring ==
  \/ \E p \in Procs : validateAnswer_call(p)
  \/ \E p \in Procs : calculateRiskScore_call(p)
  \/ \E p \in Procs : getRiskLevel_call(p)

SpecScoring == InitScoring /\ [][NextScoring]_vars

\* the outcome of the validator call on this question id and label
Validated(questionId, answerText) ==
  /\ last.op = "validateAnswer"
  /\ last.input = [questionId |-> questionId, answerText |-> answerText]

\* C12: for every question of the catalog and every option of it, the
\* validator accepts the option's label, with the points of that option and
\* the category of that question.
C12_CatalogPairsValidate ==
  \A n \in 1..TotalQuestions : \A k \in 1..Len(ASSESSMENT_QUESTIONS[n].options) :
    Validated(ASSESSMENT_QUESTIONS[n].id, ASSESSMENT_QUESTIONS[n].options[k].text) =>
      last.output = [valid |-> TRUE,
                     points |-> ASSESSMENT_QUESTIONS[n].options[k].points,
                     category |-> ASSESSMENT_QUESTIONS[n].category]

\* the validator has accepted Often for behavioral_1, with its 3 points
C12_Witness ==
  /\ Validated("behavioral_1", "Often")
  /\ last.output.valid
  /\ last.output.points = 3

\* C13: for a question id outside the catalog the validator answers
\* valid = false with the question-not-found error, whatever the label; for a
\* question of the catalog and a label of none of its options it answers
\* valid = false with the invalid-option error and the legal labels of the
\* question in catalog order; a rejection carries no points and no category.
C13_ValidatorRejection ==
  last.op = "validateAnswer" =>
    LET known == {n \in 1..TotalQuestions :
                    ASSESSMENT_QUESTIONS[n].id = last.input.questionId}
    IN  /\ known = {} =>
             last.output = [valid |-> FALSE, error |-> "Question not found"]
        /\ \A n \in known :
             LET options == ASSESSMENT_QUESTIONS[n].options
                 legal == [k \in 1..Len(options) |-> options[k].text]
             IN  (\A k \in 1..Len(options) : legal[k] # last.input.answerText) =>
                   last.output = [valid |-> FALSE, error |-> "Invalid answer option",
                                  validOptions |-> legal]
        /\ ~last.output.valid =>
             DOMAIN last.output \cap {"points", "category"} = {}

\* the validator has rejected a label of another question for behavioral_1,
\* naming the three labels of behavioral_1
C13_Witness ==
  /\ Validated("behavioral_1", "Yes")
  /\ ~last.output.valid
  /\ last.output.validOptions = <<"Never", "Sometimes", "Often">>

\* the engine has scored an answer set holding every question of the catalog once
ScoredComplete ==
  /\ last.op = "calculateRiskScore"
  /\ Len(last.input) = TotalQuestions
  /\ {last.input[i].questionId : i \in 1..Len(last.input)} = QuestionIds

\* the points of the answers of a category, counted by point value
PointsIn(answers, category) ==
  LET Count(v) == Cardinality({i \in 1..Len(answers) :
                                 answers[i].category = category /\ answers[i].points = v})
  IN  Count(1) + 2 * Count(2) + 3 * Count(3)

\* p is num / den rounded to the nearest integer, a half rounded up
IsRounded(p, num, den) ==
  /\ 2 * den * p <= 2 * num + den
  /\ 2 * num + den < 2 * den * (p + 1)

\* C14: for every complete answer set the engine returns the point sum of
\* each category, the percentage round(100 * sum / max) of each category, and
\* as total the sum of percentage * weight (0.4, 0.2, 0.2, 0.2) to two
\* decimals; the sums 8, 3, 4, 2 give 73, 75, 67, 50, total 67.6, rounded
\* 68, high, and knowledge alone as highest risk.
C14_ScoringAlgorithm ==
  ScoredComplete =>
    /\ ~last.output.thrown
    /\ LET r == last.output.value
           pct == r.categoryPercentages
       IN  /\ \A c \in CategorySet :
                /\ r.categoryScores[c] = PointsIn(last.input, c)
                /\ IsRounded(pct[c], 100 * r.categoryScores[c],
                             MAX_POINTS_PER_CATEGORY[c])
           /\ r.totalScore = 40 * pct.behavioral + 20 * pct.knowledge
                               + 20 * pct.environmental + 20 * pct.socioeconomic
           /\ r.categoryScores = [behavioral |-> 8, knowledge |-> 3,
                                   environmental |-> 4, socioeconomic |-> 2] =>
                /\ pct = [behavioral |-> 73, knowledge |-> 75,
                           environmental |-> 67, socioeconomic |-> 50]
                /\ r.totalScore = 6760
                /\ r.interpretation[2] = 68
                /\ r.riskLevel = "high"
                /\ r.highestRiskCategories = <<"knowledge">>

\* the engine has scored the answer sheet of the worked example
C14_Witness ==
  /\ ScoredComplete
  /\ last.input = SheetAnswers
  /\ last.output.value.categoryScores.behavioral = 8
  /\ last.output.value.totalScore = 6760

Levels == DOMAIN RISK_LEVEL_THRESHOLDS

\* the levels whose band of RISK_LEVEL_THRESHOLDS holds the score
BandsOf(score) ==
  {l \in Levels : /\ RISK_LEVEL_THRESHOLDS[l].min <= score
                   /\ score <= RISK_LEVEL_THRESHOLDS[l].max}

\* C15: every integer score of 0..100 lies in exactly one band of
\* RISK_LEVEL_THRESHOLDS and getRiskLevel returns the level of that band: low
\* for 0..30, moderate for 31..60, high for 61..100; the riskLevel of a
\* scoring result is the level of the total rounded to the nearest integer.
C15_BandCoverage ==
  /\ last.op = "getRiskLevel" =>
       /\ BandsOf(last.input) = {last.output.riskLevel}
       /\ last.output.riskLevel =
            (IF last.input \in 0..30 THEN "low"
             ELSE IF last.input \in 31..60 THEN "moderate"
             ELSE "high")
  /\ (last.op = "calculateRiskScore" /\ ~last.output.thrown) =>
       \E n \in Scores :
         /\ IsRounded(n, last.output.value.totalScore, 100)
         /\ BandsOf(n) = {last.output.value.riskLevel}

\* getRiskLevel has classified 30, the upper edge of the low band
C15_Witness ==
  /\ last.op = "getRiskLevel"
  /\ last.input = 30
  /\ last.output.riskLevel = "low"

\* the place of a category in the catalog's category order
CategoryIndex(category) == CHOOSE i \in 1..Len(Categories) : Categories[i] = category

\* C16: for every complete answer set highestRiskCategories is empty when
\* the greatest category percentage is 0, which is the case of all answers at
\* 0 points; otherwise it lists every category whose percentage is the
\* greatest, each once, in the order behavioral, knowledge, environmental,
\* socioeconomic, so tied categories are all returned.
C16_HighestRiskSelection ==
  ScoredComplete =>
    LET pct == last.output.value.categoryPercentages
        hrc == last.output.value.highestRiskCategories
        top == {c \in CategorySet : \A d \in CategorySet : pct[d] <= pct[c]}
        zero == \A c \in CategorySet : pct[c] = 0
    IN  /\ zero <=> \A i \in 1..Len(last.input) : last.input[i].points = 0
        /\ zero => hrc = << >>
        /\ ~zero =>
             /\ {hrc[i] : i \in 1..Len(hrc)} = top
             /\ Len(hrc) = Cardinality(top)
             /\ \A i, j \in 1..Len(hrc) :
                  i < j => CategoryIndex(hrc[i]) < CategoryIndex(hrc[j])

\* the engine has scored a set whose two highest categories are tied
C16_Witness ==
  /\ ScoredComplete
  /\ last.output.value.categoryPercentages.behavioral
       = last.output.value.categoryPercentages.environmental
  /\ last.output.value.highestRiskCategories = <<"behavioral", "environmental">>

\* the same (category, points) pairs under other question ids and labels
Anonymous(answers) ==
  [i \in 1..Len(answers) |->
     [answers[i] EXCEPT !.questionId = "q", !.answerText = "a"]]

\* the answers in other orders: reversed, rotated, two neighbours exchanged
Reorderings(answers) ==
  {Reversed(answers)}
    \cup {Rotated(answers, r) : r \in 1..(Len(answers) - 1)}
    \cup {Swapped(answers, i) : i \in 1..(Len(answers) - 1)}

\* C17: the result depends only on the multiset of (category, points) pairs
\* of the answers: the same answers scored again, in another order, or with
\* other question ids and labels, give the same result in every field.
C17_OrderIndependent ==
  (last.op = "calculateRiskScore" /\ Len(last.input) = TotalQuestions) =>
    /\ ~last.output.thrown
    /\ calculateRiskScore(last.input) = last.output
    /\ calculateRiskScore(Anonymous(last.input)) = last.output
    /\ \A other \in Reorderings(last.input) :
         calculateRiskScore(other) = last.output

\* the engine has scored the answer sheet in the reverse of the catalog order
C17_Witness ==
  /\ last.op = "calculateRiskScore"
  /\ last.input = Reversed(SheetAnswers)
  /\ last.input # SheetAnswers
  /\ last.output.value.totalScore = 6760

\* the point values of the options of the question with this id
OptionPoints(questionId) ==
  LET q == ASSESSMENT_QUESTIONS[Ordinal(questionId)]
  IN  {q.options[k].points : k \in 1..Len(q.options)}

\* every answer of the scored set has the least points of its question
AllMinimum ==
  \A i \in 1..Len(last.input) :
    \A v \in OptionPoints(last.input[i].questionId) : last.input[i].points <= v

\* every answer of the scored set has the most points of its question
AllMaximum ==
  \A i \in 1..Len(last.input) :
    \A v \in OptionPoints(last.input[i].questionId) : v <= last.input[i].points

\* C18: the category weights sum to 1 (10 tenths); the answer set of every
\* question's minimum option scores total 0, risk low, every percentage 0;
\* the answer set of every question's maximum option scores total 100, risk
\* high, every percentage 100.
C18_WeightSoundness ==
  /\ CATEGORY_WEIGHTS.behavioral + CATEGORY_WEIGHTS.knowledge
       + CATEGORY_WEIGHTS.environmental + CATEGORY_WEIGHTS.socioeconomic = 10
  /\ (ScoredComplete /\ AllMinimum) =>
       /\ last.output.value.totalScore = 0
       /\ last.output.value.riskLevel = "low"
       /\ \A c \in CategorySet : last.output.value.categoryPercentages[c] = 0
  /\ (ScoredComplete /\ AllMaximum) =>
       /\ last.output.value.totalScore = 100 * 100
       /\ last.output.value.riskLevel = "high"
       /\ \A c \in CategorySet : last.output.value.categoryPercentages[c] = 100

\* the engine has scored the all-maximum answer set at 100
C18_Witness ==
  /\ ScoredComplete
  /\ AllMaximum
  /\ last.input = LastOptions
  /\ last.output.value.totalScore = 10000

\* C19: for every complete answer set the recommendations are, in this
\* order, the 4 lines of each category of highestRiskCategories in that
\* list's order, then the 2 lines of the risk level when it is high or
\* moderate, then the educational disclaimer, which is so always there and
\* always the last entry.
C19_RecommendationAssembly ==
  ScoredComplete =>
    LET r == last.output.value
        recs == r.recommendations
        hrc == r.highestRiskCategories
        levelLines == IF r.riskLevel \in {"high", "moderate"} THEN 2 ELSE 0
    IN  /\ Len(recs) = 4 * Len(hrc) + levelLines + 1
        /\ \A j \in 1..Len(hrc) : \A i \in 1..4 :
             recs[4 * (j - 1) + i] = categoryRecommendations(hrc[j])[i]
        /\ \A i \in 1..levelLines : recs[4 * Len(hrc) + i] = <<r.riskLevel, i>>
        /\ recs[Len(recs)] = DISCLAIMER
        /\ \A i \in 1..(Len(recs) - 1) : recs[i] # DISCLAIMER

\* the engine has assembled the lines of two tied categories, the two lines
\* of a moderate risk and the disclaimer
C19_Witness ==
  /\ ScoredComplete
  /\ Len(last.output.value.highestRiskCategories) = 2
  /\ last.output.value.riskLevel = "moderate"
  /\ Len(last.output.value.recommendations) = 11

\* C20: called with a number of answers other than 12 the engine throws and
\* returns no result; called with exactly 12 answers it returns a result.
C20_LengthGate ==
  last.op = "calculateRiskScore" =>
    /\ Len(last.input) # 12 =>
         /\ last.output.thrown
         /\ last.output.error = "Expected 12 answers"
         /\ "value" \notin DOMAIN last.output
    /\ Len(last.input) = 12 =>
         /\ ~last.output.thrown
         /\ DOMAIN last.output.value =
              {"totalScore", "riskLevel", "categoryScores", "categoryPercentages",
               "highestRiskCategories", "interpretation", "recommendations"}

\* the engine has refused the 11 answers of answers.slice(0, 11)
C20_Witness ==
  /\ last.op = "calculateRiskScore"
  /\ Len(last.input) = 11
  /\ last.output.thrown

(***************************************************************************)
(* Question delivery (getQuestion, getQuestions).  A request names the     *)
(* catalog the server is deployed with: the catalog of shared/assessment   *)
(* with every option's points raised by shift.                             *)
(***************************************************************************)
\* the greatest shift of the point values of a deployed catalog
MaxShift == 2

Repointed(catalog, shift) ==
  [n \in 1..Len(catalog) |->
     [id |-> catalog[n].id, number |-> catalog[n].number,
      category |-> catalog[n].category,
      options |-> [k \in 1..Len(catalog[n].options) |->
                     [text |-> catalog[n].options[k].text,
                      points |-> catalog[n].options[k].points + shift]]]]

getQuestionByNumber(catalog, number) ==
  FindFirst(catalog, {i \in 1..Len(catalog) : catalog[i].number = number})

\* a faulty variant: the option handed out as it is in the catalog
OptionView_withPoints(opt) == opt

\* (opt) => ({ text: opt.text })
OptionView(opt) == [text |-> opt.text]

OptionViews(options) == [k \in 1..Len(options) |-> OptionView(options[k])]

getQuestion_call(p) ==
  LET catalog == Repointed(ASSESSMENT_QUESTIONS, calls[p].shift)
      session == getAssessmentSession(calls[p].sessionId)
      question == getQuestionByNumber(catalog, calls[p].questionNumber)
  IN  /\ calls[p].pc = "getQuestion"
      /\ last' = [op |-> "getQuestion",
                  input |-> [sessionId |-> calls[p].sessionId,
                             questionNumber |-> calls[p].questionNumber],
                  shift |-> calls[p].shift,
                  output |->
                    IF session = NULL \/ question = NULL
                    THEN Thrown("Failed to retrieve question")
                    ELSE Returned([id |-> question.id,
                                   number |-> question.number,
                                   category |-> question.category,
                                   options |-> OptionViews(question.options),
                                   totalQuestions |-> Len(catalog)])]
      /\ calls' = [calls EXCEPT ![p] = Idle]
      /\ UNCHANGED <<tables, clock>>

getQuestions_call(p) ==
  LET catalog == Repointed(ASSESSMENT_QUESTIONS, calls[p].shift)
  IN  /\ calls[p].pc = "getQuestions"
      /\ last' = [op |-> "getQuestions",
                  shift |-> calls[p].shift,
                  output |->
                    Returned([questions |->
                                [n \in 1..Len(catalog) |->
                                   [id |-> catalog[n].id,
                                    number |-> catalog[n].number,
                                    category |-> catalog[n].category,
                                    options |-> OptionViews(catalog[n].options)]],
                              totalQuestions |-> Len(catalog)])]
      /\ calls' = [calls EXCEPT ![p] = Idle]
      /\ UNCHANGED <<tables, clock>>

QuestionRequests ==
  {[pc |-> "getQuestion", sessionId |-> s, questionNumber |-> n, shift |-> d] :
     s \in SessionIds, n \in 1..TotalQuestions, d \in 0..MaxShift}

CatalogRequests == {[pc |-> "getQuestions", shift |-> d] : d \in 0..MaxShift}

InitQuestions ==
  /\ assessments = << >>
  /\ assessmentResponses = << >>
  /\ assessmentResults = << >>
  /\ clock = 0
  /\ last = Ok("start", "none", [sessionId |-> "none"])
  /\ \/ \E r \in QuestionRequests : Received(r)
     \/ \E r \in CatalogRequests : Received(r)

NextQuestions ==
  \/ \E s \in Clients : createSession(s)
  \/ \E p \in Procs : getQuestion_call(p)
  \/ \E p \in Procs : getQuestions_call(p)

SpecQuestions == InitQuestions /\ [][NextQuestions]_vars

\* what a client may see of question n of the catalog of shared/assessment
Visible(n) ==
  [id |-> ASSESSMENT_QUESTIONS[n].id,
   number |-> ASSESSMENT_QUESTIONS[n].number,
   category |-> ASSESSMENT_QUESTIONS[n].category,
   options |-> [k \in 1..Len(ASSESSMENT_QUESTIONS[n].options) |->
                  [text |-> ASSESSMENT_QUESTIONS[n].options[k].text]]]

\* C21: the outputs of getQuestion and getQuestions hold of every option
\* its label only, so a server deployed with other point values answers
\* every ordinal 1..12 exactly as the one with the catalog's point values.
C21_PointsNeverExposed ==
  /\ (last.op = "getQuestion" /\ ~last.output.thrown) =>
       /\ last.output.value =
            [id |-> Visible(last.input.questionNumber).id,
             number |-> last.input.questionNumber,
             category |-> Visible(last.input.questionNumber).category,
             options |-> Visible(last.input.questionNumber).options,
             totalQuestions |-> 12]
       /\ \A k \in DOMAIN last.output.value.options :
            DOMAIN last.output.value.options[k] = {"text"}
  /\ last.op = "getQuestions" =>
       /\ last.output.value =
            [questions |-> [n \in 1..12 |-> Visible(n)], totalQuestions |-> 12]
       /\ \A n \in 1..12 : \A k \in DOMAIN last.output.value.questions[n].options :
            DOMAIN last.output.value.questions[n].options[k] = {"text"}

\* a server with shifted point values has delivered question 1 to a session
C21_Witness ==
  /\ last.op = "getQuestion"
  /\ last.shift > 0
  /\ last.input.questionNumber = 1
  /\ ~last.output.thrown
  /\ Len(last.output.value.options) = 3

(***************************************************************************)
(* Finalize among concurrent requests                                      *)
(***************************************************************************)
\* the answers submitAssessment builds of response rows
AnswersOf(rows) ==
  [i \in 1..Len(rows) |->
     [questionId |-> rows[i].questionId, category |-> rows[i].category,
      answerText |-> rows[i].answerText, points |-> rows[i].points]]

\* the stored result of the session is the score of its stored response rows
ResultIsScoreOfRows(sessionId) ==
  LET scored == calculateRiskScore(AnswersOf(getAssessmentResponses(sessionId)))
      stored == getAssessmentResult(sessionId)
  IN  /\ stored # NULL
      /\ ~scored.thrown
      /\ stored.totalScore = IntColumn(scored.value.totalScore)
      /\ stored.riskLevel = scored.value.riskLevel
      /\ stored.categoryScores = scored.value.categoryScores
      /\ stored.categoryPercentages = scored.value.categoryPercentages

\* C22: at the step that marks a session completed, the result persisted
\* for it is the score of exactly the response rows stored for it at that
\* moment, whatever the interleaving of the storage steps of submitResponse
\* and submitAssessment.
C22_ResultOfRowsAtCompletion ==
  [][\A s \in SessionIds :
       (StatusOf(s) # "completed" /\ StatusOf(s)' = "completed") =>
         ResultIsScoreOfRows(s)']_vars

\* C23: under any interleaving of the steps of submitResponse and
\* submitAssessment no response row is added to a session whose status is
\* completed: the response rows of a completed session stay as they are.
C23_CompletedResponsesFrozen ==
  [][\A s \in SessionIds :
       StatusOf(s) = "completed" =>
         getAssessmentResponses(s)' = getAssessmentResponses(s)]_vars

\* C24: in every reachable state, the states between the storage writes of
\* submitAssessment and the state left by a storage failure part-way
\* through it included, a result row exists for a session exactly when the
\* status of that session is completed.
C24_ResultOneToOneWithCompleted ==
  \A s \in SessionIds :
    getAssessmentResult(s) # NULL <=> StatusOf(s) = "completed"

\* C25: a submitAssessment on a session in progress whose stored responses
\* hold every question id of the catalog succeeds, also when a question was
\* answered more than once: such a session is never refused.
C25_AnsweredAllCanFinalize ==
  \A s \in SessionIds :
    (/\ last.op = "submitAssessment"
     /\ last.sessionId = s
     /\ StatusOf(s) = "in_progress"
     /\ AnsweredIds(getAssessmentResponses(s)) = QuestionIds) => last.ok

\* C26: a getResult that follows a successful submitAssessment of the same
\* session returns the totalScore, riskLevel, categoryScores,
\* categoryPercentages, highestRiskCategories, interpretation and
\* recommendations that submitAssessment returned.
C26_PersistenceRoundTrip ==
  [][\A s \in SessionIds :
       (/\ last.op = "submitAssessment"
        /\ last.ok
        /\ last.sessionId = s
        /\ getResult(s)) =>
          /\ last'.ok
          /\ last'.data.totalScore = last.data.totalScore
          /\ last'.data.riskLevel = last.data.riskLevel
          /\ last'.data.categoryScores = last.data.categoryScores
          /\ last'.data.categoryPercentages = last.data.categoryPercentages
          /\ last'.data.highestRiskCategories = last.data.highestRiskCategories
          /\ last'.data.interpretation = last.data.interpretation
          /\ last'.data.recommendations = last.data.recommendations]_vars

(***************************************************************************)
(* Two sessions served by the concurrent server                            *)
(***************************************************************************)
\* the session whose requests a slot serves
SessionOf == [p1 |-> "s1", p2 |-> "s2"]

\* the id nanoid draws for a session created meanwhile
NewSessionId == "s3"

\* two sessions in progress: s2 has answered every question, s1 all or all
\* but the last MaxOpen
InitTwo ==
  /\ assessments = << [sessionId |-> "s1", status |-> "in_progress",
                       completedAt |-> NoTimestamp],
                      [sessionId |-> "s2", status |-> "in_progress",
                       completedAt |-> NoTimestamp] >>
  /\ \E k \in (TotalQuestions - MaxOpen)..TotalQuestions :
        assessmentResponses = SheetRows("s1", k) \o SheetRows("s2", TotalQuestions)
  /\ last = Ok("submitResponse", "s2",
               [success |-> TRUE, responsesCount |-> TotalQuestions,
                totalQuestions |-> TotalQuestions])
  /\ assessmentResults = << >>
  /\ clock = 0
  /\ calls = [p \in Procs |-> Idle]

NextTwo ==
  \/ createSession(NewSessionId)
  \/ \E p \in Procs, n \in 1..TotalQuestions :
        /\ RespondentSends(SessionOf[p], ASSESSMENT_QUESTIONS[n].id)
        /\ submitResponse_getSession(p, SessionOf[p], ASSESSMENT_QUESTIONS[n].id,
                                     ANSWER_SHEET[n])
  \/ \E p \in Procs : submitResponse_save(p)
  \/ \E p \in Procs : submitResponse_count(p)
  \/ \E p \in Procs : submitAssessment_getSession(p, SessionOf[p])
  \/ \E p \in Procs : submitAssessment_getResponses(p)
  \/ \E p \in Procs : submitAssessment_saveResult(p)
  \/ \E p \in Procs : submitAssessment_complete(p)
  \/ \E s \in SessionIds : getResult(s)

SpecTwo == InitTwo /\ [][NextTwo]_vars

\* what the storage holds of a session: its row, its responses, its result
SessionData(sessionId) ==
  <<getAssessmentSession(sessionId), getAssessmentResponses(sessionId),
    getAssessmentResult(sessionId)>>

\* the session named by the request that takes the step
ActingSession ==
  LET moved == {p \in Procs : calls'[p] # calls[p]}
  IN  IF moved = {} THEN last'.sessionId
      ELSE LET p == CHOOSE q \in moved : TRUE
           IN  IF calls[p] # Idle THEN calls[p].sessionId
               ELSE IF calls'[p] # Idle THEN calls'[p].sessionId
               ELSE last'.sessionId

\* C27: a step of createSession, submitResponse, submitAssessment or
\* getResult for one session leaves the status, the response rows and the
\* result of every other session as they were, whatever the interleaving of
\* the requests of different sessions.
C27_SessionIsolation ==
  [][\A b \in SessionIds \cup {NewSessionId} :
       b # ActingSession => SessionData(b)' = SessionData(b)]_vars

\* s1 has been completed and has its result while s2 is still in progress
\* with the 12 rows it had
C27_Witness ==
  /\ StatusOf("s1") = "completed"
  /\ getAssessmentResult("s1") # NULL
  /\ StatusOf("s2") = "in_progress"
  /\ getAssessmentResult("s2") = NULL
  /\ getAssessmentResponses("s2") = SheetRows("s2", TotalQuestions)

\* C28: for every complete answer set the reported totalScore, the value
\* with two decimals, lies in the documented band of the reported riskLevel:
\* at most 30 when low, from 31 to 60 when moderate, at least 61 when high.
C28_ReportedScoreInBand ==
  ScoredComplete =>
    LET r == last.output.value
    IN  /\ r.riskLevel = "low" => r.totalScore <= 30 * 100
        /\ r.riskLevel = "moderate" =>
             (31 * 100 <= r.totalScore /\ r.totalScore <= 60 * 100)
        /\ r.riskLevel = "high" => 61 * 100 <= r.totalScore

\* the order low < moderate < high
LevelRank == [low |-> 1, moderate |-> 2, high |-> 3]

\* the answer sets that differ from answers in one question only, where
\* they have an option of more points
RaisedInOne(answers) ==
  {[answers EXCEPT ![i] = Answer(Ordinal(answers[i].questionId), k)] :
     <<i, k>> \in {ik \in (1..Len(answers)) \X (1..3) :
                    /\ ik[2] <= Len(ASSESSMENT_QUESTIONS[
                                      Ordinal(answers[ik[1]].questionId)].options)
                    /\ ASSESSMENT_QUESTIONS[Ordinal(answers[ik[1]].questionId)]
                         .options[ik[2]].points > answers[ik[1]].points}}

\* C29: of two complete answer sets that differ in one question only, the
\* one with the option of more points for that question has a totalScore
\* that is not lower, a rounded score that is not lower and a riskLevel that
\* is not lower in the order low < moderate < high.
C29_Monotone ==
  ScoredComplete =>
    \A higher \in RaisedInOne(last.input) :
      LET r == last.output.value
          h == calculateRiskScore(higher)
      IN  /\ ~h.thrown
          /\ h.value.totalScore >= r.totalScore
          /\ h.value.interpretation[2] >= r.interpretation[2]
          /\ LevelRank[h.value.riskLevel] >= LevelRank[r.riskLevel]

\* the engine has scored a set of moderate risk that one higher answer
\* raises to high risk
C29_Witness ==
  /\ ScoredComplete
  /\ last.output.value.riskLevel = "moderate"
  /\ \E higher \in RaisedInOne(last.input) :
       calculateRiskScore(higher).value.riskLevel = "high"

(***************************************************************************)
(* The Assessment page (client/src/pages/Assessment.tsx) against the       *)
(* router.  The component state is kept in slot p1 of calls; a handler is  *)
(* one step, and each remote call of it either arrives or fails.           *)
(***************************************************************************)
NoSession == "none"

NoQuestion == "none"

Page(state, sessionId, currentQuestionNumber, currentQuestion) ==
  [pc |-> "page", state |-> state, sessionId |-> sessionId,
   currentQuestionNumber |-> currentQuestionNumber,
   currentQuestion |-> currentQuestion]

page == calls["p1"]

SetPage(next) == calls' = [calls EXCEPT !["p1"] = next]

\* the ids nanoid has not drawn yet
FreshIds == {s \in SessionIds : getAssessmentSession(s) = NULL}

\* handleStart: createSession, then the fetch of question 1
handleStart(sessionId, created, fetched) ==
  LET made == createAssessmentSession(sessionId)
  IN  /\ page.state = "intro"
      /\ sessionId \in FreshIds
      /\ IF ~created
         THEN /\ SetPage([page EXCEPT !.state = "error"])
              /\ last' = Fail("createSession", sessionId,
                              Error("Failed to create assessment session"))
              /\ UNCHANGED assessments
         ELSE /\ assessments' = made.value
              /\ IF fetched
                 THEN /\ SetPage(Page("questions", sessionId, 1,
                                       getQuestionByNumber(ASSESSMENT_QUESTIONS, 1).id))
                      /\ last' = Ok("getQuestion", sessionId, [number |-> 1])
                 ELSE /\ SetPage(Page("error", sessionId, 1, NoQuestion))
                      /\ last' = Fail("getQuestion", sessionId,
                                      Error("Failed to retrieve question"))
      /\ UNCHANGED <<assessmentResponses, assessmentResults, clock>>

\* handleSubmitAssessment, called by handleSelectAnswer after question 12
handleSubmitAssessment(responses, arrived) ==
  LET sessionId == page.sessionId
      rows == ResponsesOf(responses, sessionId)
      result == calculateRiskScore(AnswersOf(rows))
      saved == saveAssessmentResult(sessionId, result.value)
      completed == completeAssessment(sessionId)
  IN  IF ~arrived
      THEN /\ SetPage([page EXCEPT !.state = "error"])
           /\ last' = Fail("submitAssessment", sessionId,
                           Error("Failed to submit assessment"))
           /\ UNCHANGED <<assessments, assessmentResults, clock>>
      ELSE IF Len(rows) # TotalQuestions
      THEN /\ SetPage([page EXCEPT !.state = "error"])
           /\ last' = Fail("submitAssessment", sessionId,
                           IncompleteAssessment(TotalQuestions, Len(rows)))
           /\ UNCHANGED <<assessments, assessmentResults, clock>>
      ELSE IF saved.thrown
      THEN /\ SetPage([page EXCEPT !.state = "error"])
           /\ last' = Fail("submitAssessment", sessionId, Error(saved.error))
           /\ UNCHANGED <<assessments, assessmentResults, clock>>
      ELSE /\ clock < MaxClock
           /\ assessmentResults' = saved.value
           /\ assessments' = completed.value
           /\ clock' = clock + 1
           /\ SetPage([page EXCEPT !.state = "results"])
           /\ last' = Ok("submitAssessment", sessionId, result.value)

\* handleSelectAnswer: submitResponse for the displayed question, then the
\* next question number and the fetch of that question, or the finalize
handleSelectAnswer(answer, stored, fetched, finalized) ==
  LET sessionId == page.sessionId
      validation == validateAnswer(page.currentQuestion, answer)
      saved == saveAssessmentResponse(sessionId, page.currentQuestion,
                                      validation.category, answer, validation.points)
      n == page.currentQuestionNumber
  IN  /\ page.state = "questions"
      /\ page.sessionId # NoSession
      /\ page.currentQuestion # NoQuestion
      /\ IF ~stored
         THEN /\ last' = Fail("submitResponse", sessionId,
                              Error("Failed to submit response"))
              /\ UNCHANGED <<tables, clock, calls>>
         ELSE /\ assessmentResponses' = saved.value
              /\ IF n < 12
                 THEN /\ IF fetched
                         THEN /\ SetPage([page EXCEPT
                                     !.currentQuestionNumber = n + 1,
                                     !.currentQuestion =
                                        getQuestionByNumber(ASSESSMENT_QUESTIONS,
                                                            n + 1).id])
                              /\ last' = Ok("getQuestion", sessionId,
                                            [number |-> n + 1])
                         ELSE /\ SetPage([page EXCEPT
                                     !.currentQuestionNumber = n + 1])
                              /\ last' = Fail("getQuestion", sessionId,
                                              Error("Failed to retrieve question"))
                      /\ UNCHANGED <<assessments, assessmentResults, clock>>
                 ELSE handleSubmitAssessment(saved.value, finalized)

handleRestart ==
  /\ page.state \in {"error", "results"}
  /\ SetPage(Page("intro", NoSession, 1, NoQuestion))
  /\ UNCHANGED <<tables, clock, last>>

InitPage ==
  /\ assessments = << >>
  /\ assessmentResponses = << >>
  /\ assessmentResults = << >>
  /\ clock = 0
  /\ last = Ok("start", "none", [sessionId |-> "none"])
  /\ calls = [p \in Procs |->
                IF p = "p1" THEN Page("intro", NoSession, 1, NoQuestion) ELSE Idle]

NextPage ==
  \/ \E s \in Clients, created, fetched \in BOOLEAN :
        handleStart(s, created, fetched)
  \/ \E stored, fetched, finalized \in BOOLEAN :
        /\ page.currentQuestion \in QuestionIds
        /\ handleSelectAnswer(ANSWER_SHEET[Ordinal(page.currentQuestion)],
                              stored, fetched, finalized)
  \/ handleRestart

SpecPage == InitPage /\ [][NextPage]_vars

=============================================================================
